---- MODULE Spec2Model ----
(***************************************************************************)
(* HSN validation agent: the load-normalize-validate pipeline of           *)
(* agent_core.py (load_and_process_hsn_data, validate_hsn_code_from_gsheet)*)
(* with the fetch collaborator of gsheet_client.py and the configuration   *)
(* of config.py as its environment.                                        *)
(*                                                                         *)
(* Representation of Python values:                                        *)
(*   - a str is a sequence of characters; a character is a one-character   *)
(*     string, except "U+00B2" which stands for SUPERSCRIPT TWO, a         *)
(*     character for which str.isdigit() is True although it is not one of *)
(*     0-9;                                                                *)
(*   - where the code accepts values of several types (a configuration     *)
(*     attribute that may be None, a cell that gspread may have turned     *)
(*     into an int, the str-or-list argument of the validator) the value   *)
(*     is tagged: None, PyStr(s), PyInt(n), PyList(l);                     *)
(*   - a dict with insertion order that matters (a raw record) is a        *)
(*     sequence of <<key, value>> pairs with distinct keys; the index      *)
(*     HSN_CODE_TO_DESCRIPTION_MAP is a function from its keys;            *)
(*   - the DataFrame HSN_DATA is the sequence of its rows.                 *)
(***************************************************************************)
EXTENDS Integers, Sequences, FiniteSets, TLC

VARIABLES
    HSN_DATA,                     \* agent_core.HSN_DATA
    HSN_CODE_TO_DESCRIPTION_MAP,  \* agent_core.HSN_CODE_TO_DESCRIPTION_MAP
    call,                         \* the last call: its arguments, what it read, what it returned
    script                        \* run.py run as __main__: position and module namespace

vars == <<HSN_DATA, HSN_CODE_TO_DESCRIPTION_MAP, call, script>>

----------------------------------------------------------------------------
(* Bounds *)

MaxRecords == 2    \* raw records in one fetched snapshot
MaxCodes == 2      \* codes in one list handed to the validator

----------------------------------------------------------------------------
(* Python values and the str methods the code uses *)

None == [kind |-> "None"]
PyStr(s) == [kind |-> "str", val |-> s]
PyInt(n) == [kind |-> "int", val |-> n]
PyList(l) == [kind |-> "list", val |-> l]

\* bool(v) for the values the code tests in `all([...])`, `if x:`, `not x`
Truthy(v) ==
    CASE v.kind = "None" -> FALSE
      [] v.kind = "str"  -> v.val # <<>>
      [] v.kind = "int"  -> v.val # 0
      [] v.kind = "list" -> v.val # <<>>

DecimalDigits == <<"0", "1", "2", "3", "4", "5", "6", "7", "8", "9">>
AsciiDigits == {DecimalDigits[i] : i \in 1..10}
\* characters outside 0-9 that str.isdigit() accepts (of those the model draws)
OtherUnicodeDigits == {"U+00B2"}
\* characters str.strip() removes (of those the model draws)
WhitespaceChars == {" "}
UpperChars == <<"A", "B", "C", "D", "E", "F", "G", "H", "I", "J", "K", "L", "M",
                "N", "O", "P", "Q", "R", "S", "T", "U", "V", "W", "X", "Y", "Z">>
LowerChars == <<"a", "b", "c", "d", "e", "f", "g", "h", "i", "j", "k", "l", "m",
                "n", "o", "p", "q", "r", "s", "t", "u", "v", "w", "x", "y", "z">>

\* c.isdigit() for one character
IsDigitChar(c) == c \in AsciiDigits \cup OtherUnicodeDigits

\* s.isdigit(): non-empty and every character a digit
isdigit(s) == Len(s) > 0 /\ \A i \in 1..Len(s) : IsDigitChar(s[i])

\* s consists of the decimal digits 0-9 only and is not empty
IsAsciiDigits(s) == Len(s) > 0 /\ \A i \in 1..Len(s) : s[i] \in AsciiDigits

RECURSIVE lstrip(_)
lstrip(s) ==
    IF s # <<>> /\ Head(s) \in WhitespaceChars THEN lstrip(Tail(s)) ELSE s

RECURSIVE rstrip(_)
rstrip(s) ==
    IF s # <<>> /\ s[Len(s)] \in WhitespaceChars
    THEN rstrip(SubSeq(s, 1, Len(s) - 1)) ELSE s

\* s.strip()
strip(s) == rstrip(lstrip(s))

LowerChar(c) ==
    IF \E i \in 1..26 : UpperChars[i] = c
    THEN LowerChars[CHOOSE i \in 1..26 : UpperChars[i] = c]
    ELSE c

\* s.lower()
lower(s) == [i \in 1..Len(s) |-> LowerChar(s[i])]

\* s.replace(ch, "")
remove(s, ch) == SelectSeq(s, LAMBDA c : c # ch)

RECURSIVE NatToStr(_)
NatToStr(n) ==
    IF n < 10 THEN <<DecimalDigits[n + 1]>>
    ELSE NatToStr(n \div 10) \o <<DecimalDigits[(n % 10) + 1]>>

\* str(v) for a str or an int
str(v) ==
    IF v.kind = "int"
    THEN (IF v.val < 0 THEN <<"-">> \o NatToStr(-v.val) ELSE NatToStr(v.val))
    ELSE v.val

----------------------------------------------------------------------------
(* Raw records: insertion-ordered dicts *)

\* list(d.keys())
keys(d) == [i \in 1..Len(d) |-> d[i][1]]

\* d.get(key, default)
get(d, key, default) ==
    IF \E i \in 1..Len(d) : d[i][1] = key
    THEN d[CHOOSE i \in 1..Len(d) : d[i][1] = key][2]
    ELSE default

----------------------------------------------------------------------------
(* gsheet_client.fetch_data_from_google_sheet: what it can return.  The    *)
(* sheet's content, the credentials file and the network are outside the   *)
(* program: with usable arguments any snapshot of `sheets` or the empty    *)
(* list (every failure) may come back.  The file-existence test of line 15 *)
(* is one of the failures that yield the empty list.                       *)

fetch_data_from_google_sheet(sheet_id, sheet_name, creds_path, sheets) ==
    IF ~Truthy(creds_path) THEN {<<>>}
    ELSE IF ~Truthy(sheet_id) \/ ~Truthy(sheet_name) THEN {<<>>}
    ELSE sheets \cup {<<>>}

----------------------------------------------------------------------------
(* load_and_process_hsn_data *)

\* pd.DataFrame(columns=['HSNCode', 'Description']) and {}
EmptyData == <<>>
EmptyMap == <<>>

\* header.lower().replace(" ", "").replace("_", "")
NormalizeHeader(h) == remove(remove(lower(h), " "), "_")

\* the `for header in sheet_headers: if ...: actual = header; break` loop:
\* None when no header matches, else the first matching header
FirstMatchingHeader(sheet_headers, expected_key) ==
    LET hits == {i \in 1..Len(sheet_headers) :
                    NormalizeHeader(sheet_headers[i]) = NormalizeHeader(expected_key)}
    IN IF hits = {} THEN None
       ELSE PyStr(sheet_headers[CHOOSE i \in hits : \A j \in hits : i <= j])

\* the column name finally used for a role: `if actual: ... else: actual = expected`
ResolveColumn(sheet_headers, expected_key) ==
    LET actual == FirstMatchingHeader(sheet_headers, expected_key)
    IN IF Truthy(actual) THEN actual.val ELSE expected_key

\* actual_hsn_column_name_in_sheet and actual_desc_column_name_in_sheet when
\* the function returns: None unless lines 54-79 ran
ResolvedColumns(cfg, raw_data) ==
    IF raw_data = <<>>
    THEN [hsn |-> None, desc |-> None]
    ELSE [hsn  |-> PyStr(ResolveColumn(keys(raw_data[1]), cfg.EXPECTED_HSN_COLUMN_KEY)),
          desc |-> PyStr(ResolveColumn(keys(raw_data[1]), cfg.EXPECTED_DESC_COLUMN_KEY))]

\* one canonical row per raw record
CanonicalRow(row_dict, hsn_col, desc_col) ==
    [HSNCode     |-> strip(str(get(row_dict, hsn_col, PyStr(<<>>)))),
     Description |-> strip(str(get(row_dict, desc_col, PyStr(<<>>))))]

\* normalized_data, later pd.DataFrame(normalized_data)
NormalizedData(raw_data, expected_hsn, expected_desc) ==
    LET sheet_headers == keys(raw_data[1])
        hsn_col  == ResolveColumn(sheet_headers, expected_hsn)
        desc_col == ResolveColumn(sheet_headers, expected_desc)
    IN [i \in 1..Len(raw_data) |-> CanonicalRow(raw_data[i], hsn_col, desc_col)]

\* data_df[(data_df['HSNCode'] != '') & (data_df['HSNCode_is_digit'])]
KeepRow(row) == row.HSNCode # <<>> /\ isdigit(row.HSNCode)

FilterRows(rows) == SelectSeq(rows, KeepRow)

\* a faulty variant: first write wins
BuildMapFirstWins(data) ==
    LET rows == SelectSeq(data, LAMBDA r : r.HSNCode # <<>>)
        codes == {rows[i].HSNCode : i \in 1..Len(rows)}
    IN [c \in codes |->
          rows[CHOOSE i \in 1..Len(rows) :
                 /\ rows[i].HSNCode = c
                 /\ \A j \in 1..Len(rows) : rows[j].HSNCode = c => j >= i].Description]

\* pd.Series(Description.values, index=HSNCode).to_dict() over the rows with a
\* non-empty code: a later row overwrites an earlier one with the same code
BuildMap(data) ==
    LET rows == SelectSeq(data, LAMBDA r : r.HSNCode # <<>>)
        codes == {rows[i].HSNCode : i \in 1..Len(rows)}
    IN [c \in codes |->
          rows[CHOOSE i \in 1..Len(rows) :
                 /\ rows[i].HSNCode = c
                 /\ \A j \in 1..Len(rows) : rows[j].HSNCode = c => j <= i].Description]

\* `not all([sheet_id, sheet_name, creds_path])`
ConfigIncomplete(cfg) ==
    ~(Truthy(cfg.SPREADSHEET_ID) /\ Truthy(cfg.HSN_SHEET_NAME)
        /\ Truthy(cfg.SERVICE_ACCOUNT_FILE_PATH))

\* the two globals as one value
Globals(data, map) == [HSN_DATA |-> data, HSN_CODE_TO_DESCRIPTION_MAP |-> map]

\* a faulty variant: an empty fetch returns without resetting the globals
AfterEmptyFetchKeep(old) == old

\* lines 39-43: the fetch returned nothing
AfterEmptyFetch(old) == Globals(EmptyData, EmptyMap)

\* a faulty variant: a missing configuration returns without resetting the index
AfterConfigErrorKeepMap(old) == Globals(EmptyData, old.HSN_CODE_TO_DESCRIPTION_MAP)

\* lines 31-35: the configuration is incomplete
AfterConfigError(old) == Globals(EmptyData, EmptyMap)

\* a faulty variant: the table is replaced and the index is left as it was
AfterProcessingKeepMap(old, cfg, raw_data) ==
    Globals(FilterRows(NormalizedData(raw_data, cfg.EXPECTED_HSN_COLUMN_KEY,
                                      cfg.EXPECTED_DESC_COLUMN_KEY)),
            old.HSN_CODE_TO_DESCRIPTION_MAP)

\* lines 45-122: a non-empty snapshot is processed
AfterProcessing(old, cfg, raw_data) ==
    LET data_df == FilterRows(NormalizedData(raw_data, cfg.EXPECTED_HSN_COLUMN_KEY,
                                             cfg.EXPECTED_DESC_COLUMN_KEY))
    IN Globals(data_df, IF data_df # <<>> THEN BuildMap(data_df) ELSE EmptyMap)

\* The globals after load_and_process_hsn_data(), from the globals before
\* it (old), the configuration it reads and what the fetch returns.
\* (Line 97's test cannot succeed: normalized_data is non-empty there and
\* every element of it has both keys.)
load_and_process_hsn_data(old, cfg, raw_data) ==
    IF ConfigIncomplete(cfg) THEN AfterConfigError(old)
    ELSE IF raw_data = <<>> THEN AfterEmptyFetch(old)
    ELSE AfterProcessing(old, cfg, raw_data)

----------------------------------------------------------------------------
(* validate_hsn_code_from_gsheet *)

MsgNotAvailable == "HSN Master Data from Google Sheet not available or empty."
MsgEmpty == "HSN code cannot be empty."
MsgNumeric == "HSN code must be numeric."
MsgValid == "HSN code is valid. Description: "
MsgNotFound == "HSN code not found in master data."

\* a verdict; its message is a fixed text followed by an interpolated string
Verdict(code, status, text, arg, description) ==
    [hsn_code |-> code, status |-> status,
     message |-> [text |-> text, arg |-> arg], description |-> description]

\* `[hsn_codes] if isinstance(hsn_codes, str) else hsn_codes`
CodesToCheckList(hsn_codes) ==
    IF hsn_codes.kind = "str" THEN <<hsn_codes>> ELSE hsn_codes.val

\* a faulty variant: the description field is left empty on a hit
CheckCodeNoDescription(code, map) ==
    IF code = <<>> THEN Verdict(code, "invalid", MsgEmpty, <<>>, <<>>)
    ELSE IF ~isdigit(code) THEN Verdict(code, "invalid", MsgNumeric, <<>>, <<>>)
    ELSE IF code \in DOMAIN map THEN Verdict(code, "valid", MsgValid, map[code], <<>>)
    ELSE Verdict(code, "invalid", MsgNotFound, <<>>, <<>>)

\* a faulty variant: a code that is not in the index is reported as an error
CheckCodeNotFoundIsError(code, map) ==
    IF code = <<>> THEN Verdict(code, "invalid", MsgEmpty, <<>>, <<>>)
    ELSE IF ~isdigit(code) THEN Verdict(code, "invalid", MsgNumeric, <<>>, <<>>)
    ELSE IF code \in DOMAIN map THEN Verdict(code, "valid", MsgValid, map[code], map[code])
    ELSE Verdict(code, "error", MsgNotFound, <<>>, <<>>)

\* a faulty variant: the numeric rule is missing
CheckCodeNoNumericRule(code, map) ==
    IF code = <<>> THEN Verdict(code, "invalid", MsgEmpty, <<>>, <<>>)
    ELSE IF code \in DOMAIN map THEN Verdict(code, "valid", MsgValid, map[code], map[code])
    ELSE Verdict(code, "invalid", MsgNotFound, <<>>, <<>>)

\* lines 148-163, the body of the loop, for one trimmed code
CheckCode(code, map) ==
    IF code = <<>> THEN Verdict(code, "invalid", MsgEmpty, <<>>, <<>>)
    ELSE IF ~isdigit(code) THEN Verdict(code, "invalid", MsgNumeric, <<>>, <<>>)
    ELSE IF code \in DOMAIN map THEN Verdict(code, "valid", MsgValid, map[code], map[code])
    ELSE Verdict(code, "invalid", MsgNotFound, <<>>, <<>>)

\* line 136: `HSN_DATA is None or HSN_DATA.empty or not HSN_CODE_TO_DESCRIPTION_MAP`
\* (HSN_DATA is never None: every assignment to it is a DataFrame)
NoMasterData(data, map) == data = <<>> \/ DOMAIN map = {}

\* a faulty variant: the verdicts come back in reverse order
ValidateReversed(data, map, hsn_codes) ==
    LET codes == CodesToCheckList(hsn_codes)
        n == Len(codes)
    IN IF NoMasterData(data, map)
       THEN [i \in 1..n |->
               Verdict(str(codes[n + 1 - i]), "error", MsgNotAvailable, <<>>, <<>>)]
       ELSE [i \in 1..n |-> CheckCode(strip(str(codes[n + 1 - i])), map)]

\* the list the call returns
validate_hsn_code_from_gsheet(data, map, hsn_codes) ==
    LET codes == CodesToCheckList(hsn_codes)
    IN IF NoMasterData(data, map)
       THEN [i \in 1..Len(codes) |->
               Verdict(str(codes[i]), "error", MsgNotAvailable, <<>>, <<>>)]
       ELSE [i \in 1..Len(codes) |-> CheckCode(strip(str(codes[i])), map)]

----------------------------------------------------------------------------
(* The inputs the environment supplies *)

\* what os.getenv can leave in a configuration attribute: unset, empty, set
ConfigValues == {None, PyStr(<<>>), PyStr(<<"x">>)}

Configs(hsn_keys, desc_keys) ==
    [SPREADSHEET_ID : ConfigValues, HSN_SHEET_NAME : ConfigValues,
     SERVICE_ACCOUNT_FILE_PATH : ConfigValues,
     EXPECTED_HSN_COLUMN_KEY : hsn_keys, EXPECTED_DESC_COLUMN_KEY : desc_keys]

\* A sheet layout is the list of its headers; every record of a snapshot
\* has them all, in that order (gspread's get_all_records).  The last column
\* holds description cells, the others code cells.  In the layouts below
\* the code header is matched exactly, matched after normalisation, not
\* matched at all, empty, or matched by two headers.
RowsOf(layout, code_cells, desc_cells) ==
    LET n == Len(layout)
    IN {[i \in 1..n |-> <<layout[i], v[i]>>] :
          v \in {w \in [1..n -> code_cells \cup desc_cells] :
                   /\ w[n] \in desc_cells
                   /\ \A i \in 1..(n - 1) : w[i] \in code_cells}}

Snapshots(layouts, code_cells, desc_cells, max_records) ==
    UNION {[1..n -> RowsOf(l, code_cells, desc_cells)] :
             n \in 1..max_records, l \in layouts}

\* str or list arguments of the validator
Arguments(elements, max_codes) ==
    {PyStr(e.val) : e \in {x \in elements : x.kind = "str"}}
    \cup {PyList(l) : l \in UNION {[1..n -> elements] : n \in 0..max_codes}}

\* -- the program run as a whole: few strings, any sequence of calls
MainHsnKeys == {<<"c">>}
MainDescKeys == {<<"d">>}
MainLayouts == {<< <<"c">>, <<"d">> >>}
MainCodeCells == {PyStr(<<" ", "0">>), PyInt(1), PyStr(<<"a">>)}
MainDescCells == {PyStr(<<"x", " ">>)}
MainSheets == Snapshots(MainLayouts, MainCodeCells, MainDescCells, MaxRecords)
MainElements == {PyStr(<<>>), PyStr(<<"0", " ">>), PyStr(<<"1">>), PyStr(<<"a">>)}
MainArguments == Arguments(MainElements, MaxCodes)

\* -- one load, many snapshots
WideHsnKeys == {<<"c">>, <<"C", "_">>, <<"_">>, <<>>}
WideDescKeys == {<<"d">>, <<"D", " ">>}
WideLayouts ==
    {<< <<"c">>, <<"d">> >>,
     << <<"C", " ">>, <<"_", "d">> >>,
     << <<"k">>, <<"d">> >>,
     << <<>>, <<"d">> >>,
     << <<"_", "c">>, <<"c">> >>}
WideCodeCells ==
    {PyStr(<<>>), PyStr(<<" ", "0">>), PyStr(<<"0", "1">>), PyInt(1), PyInt(-1),
     PyStr(<<"a", "0">>), PyStr(<<"U+00B2">>)}
WideDescCells == {PyStr(<<"x">>), PyStr(<<"y", " ">>)}
WideSheets == Snapshots(WideLayouts, WideCodeCells, WideDescCells, MaxRecords)

\* -- one validation, many indexes and arguments
TableLayouts == {<< <<"c">>, <<"d">> >>}
TableCodeCells ==
    {PyStr(<<"0">>), PyStr(<<"0", "1">>), PyStr(<<"U+00B2">>), PyStr(<<"a">>)}
TableDescCells == {PyStr(<<>>), PyStr(<<"x">>), PyStr(<<"y">>)}
TableSheets == Snapshots(TableLayouts, TableCodeCells, TableDescCells, MaxRecords)
WideElements ==
    {PyStr(<<>>), PyStr(<<" ">>), PyStr(<<"0">>), PyStr(<<" ", "0", "1", " ">>),
     PyStr(<<"1">>), PyInt(1), PyStr(<<"a">>), PyStr(<<"0", "a">>),
     PyStr(<<"0", " ", "1">>), PyStr(<<"U+00B2">>)}
WideArguments == Arguments(WideElements, MaxCodes)

----------------------------------------------------------------------------
(* The state machine *)

\* run.py is not being run
NoScript == [pc |-> "none"]

CurrentGlobals == Globals(HSN_DATA, HSN_CODE_TO_DESCRIPTION_MAP)

SetGlobals(new) ==
    /\ HSN_DATA' = new.HSN_DATA
    /\ HSN_CODE_TO_DESCRIPTION_MAP' = new.HSN_CODE_TO_DESCRIPTION_MAP

\* lines 15-16: the module-level initial values
Init ==
    /\ HSN_DATA = EmptyData
    /\ HSN_CODE_TO_DESCRIPTION_MAP = EmptyMap
    /\ call = [op |-> "init"]
    /\ script = NoScript

\* load_and_process_hsn_data() returning at line 35, before the fetch
LoadConfigError(cfgs) ==
    \E cfg \in cfgs :
        /\ ConfigIncomplete(cfg)
        /\ SetGlobals(load_and_process_hsn_data(CurrentGlobals, cfg, <<>>))
        /\ call' = [op |-> "load", config |-> cfg, fetched |-> FALSE,
                    raw_data |-> <<>>, columns |-> ResolvedColumns(cfg, <<>>),
                    before |-> CurrentGlobals]
        /\ UNCHANGED script

\* load_and_process_hsn_data() calling the fetch collaborator at line 37
LoadFetched(cfgs, sheets) ==
    \E cfg \in cfgs :
        /\ ~ConfigIncomplete(cfg)
        /\ \E raw_data \in fetch_data_from_google_sheet(cfg.SPREADSHEET_ID,
                               cfg.HSN_SHEET_NAME, cfg.SERVICE_ACCOUNT_FILE_PATH, sheets) :
              /\ SetGlobals(load_and_process_hsn_data(CurrentGlobals, cfg, raw_data))
              /\ call' = [op |-> "load", config |-> cfg, fetched |-> TRUE,
                          raw_data |-> raw_data,
                          columns |-> ResolvedColumns(cfg, raw_data),
                          before |-> CurrentGlobals]
              /\ UNCHANGED script

\* validate_hsn_code_from_gsheet(hsn_codes)
ValidateCall(arguments) ==
    \E hsn_codes \in arguments :
        /\ call' = [op |-> "validate", hsn_codes |-> hsn_codes,
                    results |-> validate_hsn_code_from_gsheet(
                                    HSN_DATA, HSN_CODE_TO_DESCRIPTION_MAP, hsn_codes)]
        /\ UNCHANGED <<HSN_DATA, HSN_CODE_TO_DESCRIPTION_MAP, script>>

MainConfigs == Configs(MainHsnKeys, MainDescKeys)

LoadMissingConfig == LoadConfigError(MainConfigs)
Load == LoadFetched(MainConfigs, MainSheets)
Validate == ValidateCall(MainArguments)

Next == LoadMissingConfig \/ Load \/ Validate

\* any sequence of loads and validations
Spec == Init /\ [][Next]_vars

\* -- a single load from the initial state, over many snapshots
WideConfigs == Configs(WideHsnKeys, WideDescKeys)

FirstLoadMissingConfig == call.op = "init" /\ LoadConfigError(WideConfigs)
FirstLoad == call.op = "init" /\ LoadFetched(WideConfigs, WideSheets)

NextLoad == FirstLoadMissingConfig \/ FirstLoad

SpecLoad == Init /\ [][NextLoad]_vars

\* -- a single validation in a state the import-time load (line 178) left
CompleteConfig ==
    [SPREADSHEET_ID |-> PyStr(<<"x">>), HSN_SHEET_NAME |-> PyStr(<<"x">>),
     SERVICE_ACCOUNT_FILE_PATH |-> PyStr(<<"x">>),
     EXPECTED_HSN_COLUMN_KEY |-> <<"c">>, EXPECTED_DESC_COLUMN_KEY |-> <<"d">>]

InitLoaded ==
    \E raw_data \in TableSheets \cup {<<>>} :
        LET new == load_and_process_hsn_data(Globals(EmptyData, EmptyMap),
                                             CompleteConfig, raw_data)
        IN /\ HSN_DATA = new.HSN_DATA
           /\ HSN_CODE_TO_DESCRIPTION_MAP = new.HSN_CODE_TO_DESCRIPTION_MAP
           /\ call = [op |-> "import"]
           /\ script = NoScript

FirstValidate == call.op = "import" /\ ValidateCall(WideArguments)

NextValidate == FirstValidate

SpecValidate == InitLoaded /\ [][NextValidate]_vars

----------------------------------------------------------------------------
(* Properties *)

\* the codes a call is about, one per verdict expected
InputCodes(hsn_codes) ==
    IF hsn_codes.kind = "list" THEN hsn_codes.val ELSE <<hsn_codes>>

IndexEmpty == DOMAIN HSN_CODE_TO_DESCRIPTION_MAP = {}

\* a configuration attribute that is not set, or set to the empty string
Absent(v) == v = None \/ v = PyStr(<<>>)

MissingConfiguration(cfg) ==
    Absent(cfg.SPREADSHEET_ID) \/ Absent(cfg.HSN_SHEET_NAME)
        \/ Absent(cfg.SERVICE_ACCOUNT_FILE_PATH)

\* C1: a validation marks every code "error", with an empty description,
\* when the index is empty, and marks no code "error" when it is not: error
\* is produced if and only if there is no master data, in every state a
\* sequence of loads can leave.
C1_ErrorIffNoMasterData ==
    call.op = "validate" =>
        /\ Len(call.results) = Len(InputCodes(call.hsn_codes))
        /\ \A i \in 1..Len(call.results) :
              IF IndexEmpty
              THEN call.results[i].status = "error" /\ call.results[i].description = <<>>
              ELSE call.results[i].status # "error"

\* C1 witness: a code that is not a key is validated against a non-empty index
C1_Witness ==
    /\ call.op = "validate"
    /\ ~IndexEmpty
    /\ \E i \in 1..Len(call.results) :
          /\ call.results[i].status = "invalid"
          /\ call.results[i].message.text = MsgNotFound

\* C2: a load that fails, for a missing source id, collection name or
\* credentials path or for an empty fetch, leaves the table and the index
\* empty whatever they held before, and with a missing configuration the
\* fetch collaborator is not invoked.
C2_FailedLoadEmpties ==
    (call.op = "load" /\ (MissingConfiguration(call.config) \/ call.raw_data = <<>>)) =>
        /\ HSN_DATA = <<>>
        /\ IndexEmpty
        /\ MissingConfiguration(call.config) => ~call.fetched

\* C2 witness: an empty fetch after a load that had filled the table
C2_Witness ==
    /\ call.op = "load"
    /\ call.fetched
    /\ call.raw_data = <<>>
    /\ call.before.HSN_DATA # <<>>
    /\ DOMAIN call.before.HSN_CODE_TO_DESCRIPTION_MAP # {}

\* C8: after any sequence of loads the table and the index are what a single
\* load of the last call's configuration and raw records gives from the
\* initial empty state.
C8_RebuiltWholesale ==
    call.op = "load" =>
        CurrentGlobals = load_and_process_hsn_data(Globals(<<>>, <<>>),
                                                   call.config, call.raw_data)

\* C8 witness: a load replaces a filled table by a different filled table
C8_Witness ==
    /\ call.op = "load"
    /\ call.before.HSN_DATA # <<>>
    /\ HSN_DATA # <<>>
    /\ \A i \in 1..Len(HSN_DATA) : \A j \in 1..Len(call.before.HSN_DATA) :
          HSN_DATA[i].HSNCode # call.before.HSN_DATA[j].HSNCode

----------------------------------------------------------------------------
(* Properties of one validation (SpecValidate) *)

\* the trimmed text of the i-th code of the call
Trimmed(i) == strip(str(InputCodes(call.hsn_codes)[i]))

\* s contains a character that is not one of 0-9
HasNonDecimalChar(s) == \E k \in 1..Len(s) : s[k] \notin AsciiDigits

\* s contains a character that str.isdigit() rejects
HasCharIsdigitRejects(s) == \E k \in 1..Len(s) : ~IsDigitChar(s[k])

\* C3: with a non-empty index, validating a single code that is a key of it
\* returns exactly one verdict, with status "valid" and the description the
\* index holds for the code.
C3_KeyIsValid ==
    (/\ call.op = "validate"
     /\ call.hsn_codes.kind = "str"
     /\ call.hsn_codes.val \in DOMAIN HSN_CODE_TO_DESCRIPTION_MAP) =>
        /\ Len(call.results) = 1
        /\ call.results[1].status = "valid"
        /\ call.results[1].description = HSN_CODE_TO_DESCRIPTION_MAP[call.hsn_codes.val]

\* C3 witness: a key with a non-empty description is validated
C3_Witness ==
    /\ call.op = "validate"
    /\ call.hsn_codes.kind = "str"
    /\ call.hsn_codes.val \in DOMAIN HSN_CODE_TO_DESCRIPTION_MAP
    /\ HSN_CODE_TO_DESCRIPTION_MAP[call.hsn_codes.val] # <<>>

\* C4 as stated: every code that contains a character other than 0-9 gets
\* status "invalid" with the numeric-format message, whatever the index holds.
C4_Original ==
    call.op = "validate" =>
        \A i \in 1..Len(InputCodes(call.hsn_codes)) :
            HasNonDecimalChar(str(InputCodes(call.hsn_codes)[i])) =>
                /\ Len(call.results) >= i
                /\ call.results[i].status = "invalid"
                /\ call.results[i].message.text = MsgNumeric

\* C4 amended: with a non-empty index, every code whose trimmed text is not
\* empty and contains a character that str.isdigit() rejects gets status
\* "invalid" with the numeric-format message and an empty description; with
\* an empty index it gets status "error".
C4_NonDigitIsInvalid ==
    call.op = "validate" =>
        /\ Len(call.results) = Len(InputCodes(call.hsn_codes))
        /\ \A i \in 1..Len(InputCodes(call.hsn_codes)) :
              (Trimmed(i) # <<>> /\ HasCharIsdigitRejects(Trimmed(i))) =>
                  IF IndexEmpty
                  THEN call.results[i].status = "error"
                  ELSE /\ call.results[i].status = "invalid"
                       /\ call.results[i].message.text = MsgNumeric
                       /\ call.results[i].description = <<>>

\* C4 witness: a code with a letter after a digit is validated against a
\* non-empty index
C4_Witness ==
    /\ call.op = "validate"
    /\ ~IndexEmpty
    /\ \E i \in 1..Len(InputCodes(call.hsn_codes)) :
          /\ Trimmed(i) = <<"0", "a">>
          /\ call.results[i].message.text = MsgNumeric

\* C5: a validation returns one verdict per input code, in input order (one
\* verdict for a single string), verdict i names code i, and it is the
\* verdict the code gets when validated alone against the same index.
C5_OneVerdictPerCode ==
    call.op = "validate" =>
        LET codes == InputCodes(call.hsn_codes)
        IN /\ Len(call.results) = Len(codes)
           /\ call.hsn_codes.kind = "str" => Len(call.results) = 1
           /\ \A i \in 1..Len(codes) :
                 /\ strip(call.results[i].hsn_code) = strip(str(codes[i]))
                 /\ call.results[i] =
                       validate_hsn_code_from_gsheet(HSN_DATA,
                           HSN_CODE_TO_DESCRIPTION_MAP, PyList(<<codes[i]>>))[1]

\* C5 witness: a list of two codes gets a "valid" and then an "invalid" verdict
C5_Witness ==
    /\ call.op = "validate"
    /\ call.hsn_codes.kind = "list"
    /\ Len(call.results) = 2
    /\ call.results[1].status = "valid"
    /\ call.results[2].status = "invalid"
    /\ call.results[1].hsn_code # call.results[2].hsn_code

\* the verdict C6 prescribes for a trimmed code, first matching rule first
C6_Expected(code) ==
    IF code = <<>> THEN [status |-> "invalid", text |-> MsgEmpty]
    ELSE IF HasNonDecimalChar(code) THEN [status |-> "invalid", text |-> MsgNumeric]
    ELSE IF code \in DOMAIN HSN_CODE_TO_DESCRIPTION_MAP
         THEN [status |-> "valid", text |-> MsgValid]
    ELSE [status |-> "invalid", text |-> MsgNotFound]

\* C6: with a non-empty index each trimmed code is classified by the first
\* matching rule: empty, then any character other than a digit 0-9, then key
\* of the index, then not found; every verdict that is not "valid" has an
\* empty description.
C6_RuleOrder ==
    (call.op = "validate" /\ ~IndexEmpty) =>
        /\ Len(call.results) = Len(InputCodes(call.hsn_codes))
        /\ \A i \in 1..Len(call.results) :
              /\ call.results[i].status = C6_Expected(Trimmed(i)).status
              /\ call.results[i].message.text = C6_Expected(Trimmed(i)).text
              /\ call.results[i].status # "valid" => call.results[i].description = <<>>

----------------------------------------------------------------------------
(* Properties of one load (SpecLoad) *)

\* the canonical rows of the last load, one per raw record
CanonicalRows ==
    [i \in 1..Len(call.raw_data) |->
        CanonicalRow(call.raw_data[i], call.columns.hsn.val, call.columns.desc.val)]

TableCodes == {HSN_DATA[i].HSNCode : i \in 1..Len(HSN_DATA)}

\* C7: after every load the table is the order-preserving subsequence of the
\* canonical rows whose trimmed code is non-empty and made of the decimal
\* digits 0-9 only, and the keys of the index are codes of the table, each
\* non-empty and made of 0-9 only.
C7_TableAllDecimalDigits ==
    call.op = "load" =>
        /\ HSN_DATA = (IF call.raw_data = <<>> THEN <<>>
                       ELSE SelectSeq(CanonicalRows, LAMBDA r : IsAsciiDigits(r.HSNCode)))
        /\ \A i \in 1..Len(HSN_DATA) : IsAsciiDigits(HSN_DATA[i].HSNCode)
        /\ DOMAIN HSN_CODE_TO_DESCRIPTION_MAP \subseteq TableCodes
        /\ \A c \in DOMAIN HSN_CODE_TO_DESCRIPTION_MAP : IsAsciiDigits(c)

\* C9: the index has exactly one entry per distinct code of the table, and
\* it maps a code to the description of the last row of the table that
\* carries the code.
C9_LastWriteWins ==
    call.op = "load" =>
        /\ DOMAIN HSN_CODE_TO_DESCRIPTION_MAP = TableCodes
        /\ \A i \in 1..Len(HSN_DATA) :
              (\A j \in (i + 1)..Len(HSN_DATA) : HSN_DATA[j].HSNCode # HSN_DATA[i].HSNCode)
                  => HSN_CODE_TO_DESCRIPTION_MAP[HSN_DATA[i].HSNCode]
                        = HSN_DATA[i].Description

\* C9 witness: two rows of the table carry the same code with different
\* descriptions
C9_Witness ==
    /\ call.op = "load"
    /\ \E i, j \in 1..Len(HSN_DATA) :
          /\ i < j
          /\ HSN_DATA[i].HSNCode = HSN_DATA[j].HSNCode
          /\ HSN_DATA[i].Description # HSN_DATA[j].Description

\* the column C10 prescribes for a role: the first header of the first
\* record that equals the expected key after normalisation, else the key
C10_Expected(sheet_headers, expected_key) ==
    LET matching == {i \in 1..Len(sheet_headers) :
                        NormalizeHeader(sheet_headers[i]) = NormalizeHeader(expected_key)}
    IN IF matching = {} THEN expected_key
       ELSE sheet_headers[CHOOSE i \in matching : \A j \in matching : i <= j]

\* C10: for each role the resolved column is the first header of the first
\* record that matches the expected key after lower-casing and removing
\* spaces and underscores, whatever the strings (the empty one included), and
\* the expected key itself when no header matches.
C10_ResolvedColumn ==
    (call.op = "load" /\ call.raw_data # <<>>) =>
        /\ call.columns.hsn.val =
              C10_Expected(keys(call.raw_data[1]), call.config.EXPECTED_HSN_COLUMN_KEY)
        /\ call.columns.desc.val =
              C10_Expected(keys(call.raw_data[1]), call.config.EXPECTED_DESC_COLUMN_KEY)

----------------------------------------------------------------------------
(* The table and the index together.  The program is single-threaded: a    *)
(* call of load_and_process_hsn_data runs to its return before anything    *)
(* else runs (agent_core line 178 during import, run.py line 114 before    *)
(* the event loop starts), so a validation reads the globals only in the   *)
(* states between calls, which are the states of Spec.                     *)

\* the index is the one built from the table: its keys are the table's
\* codes and each key has the description of its last row
SameSnapshot(data, map) ==
    /\ DOMAIN map = {data[i].HSNCode : i \in 1..Len(data)}
    /\ \A i \in 1..Len(data) :
          (\A j \in (i + 1)..Len(data) : data[j].HSNCode # data[i].HSNCode)
              => map[data[i].HSNCode] = data[i].Description

----------------------------------------------------------------------------
(* run.py run as a script.  Line 10, `from app.agent_core import ...,      *)
(* HSN_CODE_TO_DESCRIPTION_MAP, ...`, first imports agent_core, whose last *)
(* lines run the load, and then binds run.py's own name                    *)
(* HSN_CODE_TO_DESCRIPTION_MAP to the dict agent_core's global refers to   *)
(* at that moment.  load_and_process_hsn_data never changes a dict in      *)
(* place: it assigns a new one to agent_core's global (lines 34, 42, 119,  *)
(* 122), which leaves run.py's name on the dict of the import.             *)

\* s.strip(chars)
RECURSIVE lstrip_chars(_, _)
lstrip_chars(s, chars) ==
    IF s # <<>> /\ Head(s) \in chars THEN lstrip_chars(Tail(s), chars) ELSE s

RECURSIVE rstrip_chars(_, _)
rstrip_chars(s, chars) ==
    IF s # <<>> /\ s[Len(s)] \in chars
    THEN rstrip_chars(SubSeq(s, 1, Len(s) - 1), chars) ELSE s

strip_chars(s, chars) == rstrip_chars(lstrip_chars(s, chars), chars)

\* s.split(): the runs of non-whitespace characters
RECURSIVE split(_)
split(s) ==
    LET t == lstrip(s)
        end == CHOOSE i \in 1..(Len(t) + 1) :
                   /\ i = Len(t) + 1 \/ t[i] \in WhitespaceChars
                   /\ \A j \in 1..(i - 1) : t[j] \notin WhitespaceChars
    IN IF t = <<>> THEN <<>>
       ELSE <<SubSeq(t, 1, end - 1)>> \o split(SubSeq(t, end, Len(t)))

\* s.find(sub) + 1: the first position where sub occurs in s, 0 if none
find(s, sub) ==
    LET At(i) == i + Len(sub) - 1 <= Len(s) /\ SubSeq(s, i, i + Len(sub) - 1) = sub
    IN IF \E i \in 1..Len(s) : At(i)
       THEN CHOOSE i \in 1..Len(s) : At(i) /\ \A j \in 1..(i - 1) : ~At(j)
       ELSE 0

\* s.replace(old, "", 1)
replace_first(s, old) ==
    LET i == find(s, old)
    IN IF i = 0 THEN s
       ELSE SubSeq(s, 1, i - 1) \o SubSeq(s, i + Len(old), Len(s))

\* s.split(sep)
RECURSIVE split_sep(_, _)
split_sep(s, sep) ==
    LET i == find(s, sep)
    IN IF i = 0 THEN <<s>>
       ELSE <<SubSeq(s, 1, i - 1)>> \o split_sep(SubSeq(s, i + Len(sep), Len(s)), sep)

\* the phrases line 50 removes, in its order
RemovedPhrases == <<
    <<"v", "a", "l", "i", "d", "a", "t", "e", " ", "H", "S", "N", " ", "c",
      "o", "d", "e", "s">>,
    <<"v", "a", "l", "i", "d", "a", "t", "e", " ", "H", "S", "N", " ", "c",
      "o", "d", "e">>,
    <<"v", "a", "l", "i", "d", "a", "t", "e">>,
    <<"c", "h", "e", "c", "k", " ", "H", "S", "N", " ", "c", "o", "d", "e",
      "s">>,
    <<"c", "h", "e", "c", "k", " ", "H", "S", "N">> >>

And == <<"a", "n", "d">>

\* line 93
EmptyMapQuery ==
    <<"Q", "u", "e", "r", "y", " ", "w", "h", "e", "n", " ", "d", "a", "t",
      "a", " ", "m", "a", "p", " ", "i", "s", " ", "e", "m", "p", "t", "y",
      " ", "p", "o", "s", "t", "-", "l", "o", "a", "d">>

\* lines 98-103
SampleQueries == <<
    <<"V", "a", "l", "i", "d", "a", "t", "e", " ", "H", "S", "N", " ", "0",
      "1", "0", "1">>,
    <<"C", "h", "e", "c", "k", " ", "H", "S", "N", " ", "c", "o", "d", "e",
      "s", " ", "0", "2", "0", "2", "1", "0", "0", "0", " ", "a", "n", "d",
      " ", "9", "9", "9", "8", "7", " ", "a", "n", "d", " ", "0", "3", "0",
      "3">>,
    <<"I", "s", " ", "X", "Y", "Z", "9", "9", " ", "a", "n", " ", "H", "S",
      "N", " ", "c", "o", "d", "e", "?">>,
    <<"0", "1", "0", "1", "1", "0", "1", "0">>,
    <<"V", "a", "l", "i", "d", "a", "t", "e", " ", "H", "S", "N", " ", "c",
      "o", "d", "e", "s", " ", "0", "1", ",", " ", "0", "2", "0", "2", ",",
      " ", "0", "3", "0", "3", "1", "3", "0", "0">>,
    <<"8", "5", "1", "7", "1", "2", "1", "1">> >>

\* line 48: the words of the query that are digits once ',' and '.' and
\* whitespace are stripped from their ends
PotentialHsnsOfWords(query) ==
    LET words == split(query)
        cleaned == [i \in 1..Len(words) |-> strip(strip_chars(words[i], {",", "."}))]
    IN SelectSeq(cleaned, isdigit)

RECURSIVE RemovePhrases(_, _)
RemovePhrases(s, phrases) ==
    IF phrases = <<>> THEN s
    ELSE RemovePhrases(replace_first(s, Head(phrases)), Tail(phrases))

\* lines 50-53: the parts between "and" that are digits, else the query
\* itself when it is digits
PotentialHsnsOfParts(query) ==
    LET parts == split_sep(RemovePhrases(query, RemovedPhrases), And)
        cleaned_query_parts == [i \in 1..Len(parts) |-> strip(parts[i])]
        digits == SelectSeq([i \in 1..Len(parts) |-> strip(cleaned_query_parts[i])],
                            isdigit)
    IN IF digits = <<>> /\ isdigit(strip(query)) THEN <<strip(query)>> ELSE digits

\* lines 48-61: what the tool is called with
ToolInput(query) ==
    LET potential_hsns ==
            IF PotentialHsnsOfWords(query) # <<>> THEN PotentialHsnsOfWords(query)
            ELSE PotentialHsnsOfParts(query)
    IN IF potential_hsns = <<>> THEN PyStr(query)
       ELSE IF Len(potential_hsns) = 1 THEN PyStr(potential_hsns[1])
       ELSE PyList([i \in 1..Len(potential_hsns) |-> PyStr(potential_hsns[i])])

\* call_agent_tool_directly(query, hsn_gsheet_validation_agent): the tool is
\* validate_hsn_code_from_gsheet (agent_core line 172), which reads
\* agent_core's globals
call_agent_tool_directly(query) ==
    [query |-> query, tool_input |-> ToolInput(query),
     tool_result |-> validate_hsn_code_from_gsheet(HSN_DATA, HSN_CODE_TO_DESCRIPTION_MAP,
                                                   ToolInput(query))]

RunConfigs == {CompleteConfig, [CompleteConfig EXCEPT !.SPREADSHEET_ID = None]}
RunCodeCells == {PyStr(<<"0", "1", "0", "1">>), PyInt(1), PyStr(<<"a">>)}
RunSheets == Snapshots(MainLayouts, RunCodeCells, WideDescCells, MaxRecords)

\* what one call of load_and_process_hsn_data() may fetch under cfg
RunFetches(cfg) ==
    IF ConfigIncomplete(cfg) THEN {<<>>}
    ELSE fetch_data_from_google_sheet(cfg.SPREADSHEET_ID, cfg.HSN_SHEET_NAME,
                                      cfg.SERVICE_ACCOUNT_FILE_PATH, RunSheets)

\* the record of one call of load_and_process_hsn_data()
LoadRecord(cfg, raw_data) ==
    [op |-> "load", config |-> cfg, fetched |-> ~ConfigIncomplete(cfg),
     raw_data |-> raw_data, columns |-> ResolvedColumns(cfg, raw_data),
     before |-> CurrentGlobals]

\* the record of the tool call of run.py line 66
ToolRecord(query) ==
    [op |-> "validate", hsn_codes |-> call_agent_tool_directly(query).tool_input,
     results |-> call_agent_tool_directly(query).tool_result]

\* run.py lines 9-10: config is read from the environment, agent_core is
\* imported and runs its load (agent_core lines 15-16, 177-178), and the
\* names of line 10 are bound in run.py
RunImport ==
    /\ script.pc = "none"
    /\ call.op = "init"
    /\ \E cfg \in RunConfigs : \E raw_data \in RunFetches(cfg) :
          LET new == load_and_process_hsn_data(Globals(EmptyData, EmptyMap), cfg, raw_data)
          IN /\ SetGlobals(new)
             /\ call' = LoadRecord(cfg, raw_data)
             /\ script' = [pc |-> "main_block", config |-> cfg,
                           HSN_CODE_TO_DESCRIPTION_MAP |-> new.HSN_CODE_TO_DESCRIPTION_MAP,
                           retried |-> FALSE, branch |-> "none", responses |-> <<>>]

\* lines 106-114 when the test of line 112 finds run.py's name empty: the
\* load is run again and assigns agent_core's globals
RunRetryLoad ==
    /\ script.pc = "main_block"
    /\ DOMAIN script.HSN_CODE_TO_DESCRIPTION_MAP = {}
    /\ \E raw_data \in RunFetches(script.config) :
          /\ SetGlobals(load_and_process_hsn_data(CurrentGlobals, script.config, raw_data))
          /\ call' = LoadRecord(script.config, raw_data)
    /\ script' = [script EXCEPT !.pc = "main", !.retried = TRUE]

\* lines 106-112 when run.py's name is not empty: no second load
RunNoRetry ==
    /\ script.pc = "main_block"
    /\ DOMAIN script.HSN_CODE_TO_DESCRIPTION_MAP # {}
    /\ script' = [script EXCEPT !.pc = "main"]
    /\ UNCHANGED <<HSN_DATA, HSN_CODE_TO_DESCRIPTION_MAP, call>>

\* main_direct_tool_interactions, lines 87-94: run.py's name is empty
RunMainEmptyMap ==
    /\ script.pc = "main"
    /\ DOMAIN script.HSN_CODE_TO_DESCRIPTION_MAP = {}
    /\ script' = [script EXCEPT !.pc = "done", !.branch = "empty",
                                !.responses = <<call_agent_tool_directly(EmptyMapQuery)>>]
    /\ call' = ToolRecord(EmptyMapQuery)
    /\ UNCHANGED <<HSN_DATA, HSN_CODE_TO_DESCRIPTION_MAP>>

\* main_direct_tool_interactions, lines 87 and 98: run.py's name is not
\* empty, the first sample query is sent
RunMainSamples ==
    /\ script.pc = "main"
    /\ DOMAIN script.HSN_CODE_TO_DESCRIPTION_MAP # {}
    /\ script' = [script EXCEPT !.pc = "samples", !.branch = "samples",
                                !.responses = <<call_agent_tool_directly(SampleQueries[1])>>]
    /\ call' = ToolRecord(SampleQueries[1])
    /\ UNCHANGED <<HSN_DATA, HSN_CODE_TO_DESCRIPTION_MAP>>

\* lines 99-103: the next sample query
RunNextSample ==
    /\ script.pc = "samples"
    /\ LET n == Len(script.responses) + 1
       IN /\ script' = [script EXCEPT
                 !.pc = IF n = Len(SampleQueries) THEN "done" ELSE "samples",
                 !.responses = Append(@, call_agent_tool_directly(SampleQueries[n]))]
          /\ call' = ToolRecord(SampleQueries[n])
    /\ UNCHANGED <<HSN_DATA, HSN_CODE_TO_DESCRIPTION_MAP>>

NextRun ==
    \/ RunImport \/ RunRetryLoad \/ RunNoRetry
    \/ RunMainEmptyMap \/ RunMainSamples \/ RunNextSample

SpecRun == Init /\ [][NextRun]_vars

\* C12: when the index is empty after the import-time load and the retry of
\* run.py line 114 populates it, main_direct_tool_interactions tests the
\* index the load last wrote, the one validate reads, and goes on to the
\* sample queries instead of the "data map is empty" branch.
C12_RetrySeenByMain ==
    (/\ script.pc \in {"samples", "done"}
     /\ script.retried
     /\ DOMAIN HSN_CODE_TO_DESCRIPTION_MAP # {}) =>
        /\ script.HSN_CODE_TO_DESCRIPTION_MAP = HSN_CODE_TO_DESCRIPTION_MAP
        /\ script.branch = "samples"

====
